---- MODULE Spec2Model ----
(***************************************************************************)
(* Catalysis Hub MCP server (src/src/index.ts): the JSON-RPC router of the *)
(* Worker's fetch handler, the GraphQL forwarder executeGraphQLQuery and   *)
(* the process-wide McpServer singleton.                                   *)
(*                                                                         *)
(* JavaScript values are records [t, n, s, kids]; a JSON text is a string  *)
(* built by JSONstringify exactly as JSON.stringify builds it (members     *)
(* whose value is undefined are dropped, quotes and backslashes escaped).  *)
(* A request is split into steps at the handler's await points.            *)
(***************************************************************************)
EXTENDS Integers, Sequences, FiniteSets, TLC

\* ------------------------------------------------------------------------
\* Bounds
\* ------------------------------------------------------------------------

\* numeric JSON-RPC ids range over 0..MaxId
MaxId == 1

\* number of requests in flight at once in ConcSpec
NumClients == 2

\* ------------------------------------------------------------------------
\* JavaScript values
\* ------------------------------------------------------------------------

Undefined == [t |-> "undefined", n |-> 0, s |-> "", kids |-> <<>>]

Null == [t |-> "null", n |-> 0, s |-> "", kids |-> <<>>]

Num(n) == [t |-> "number", n |-> n, s |-> "", kids |-> <<>>]

Str(s) == [t |-> "string", n |-> 0, s |-> s, kids |-> <<>>]

\* a member of an object (key k, value v); array items carry the key ""
M(k, v) == [k |-> k, v |-> v]

Arr(items) == [t |-> "array", n |-> 0, s |-> "",
               kids |-> [i \in 1..Len(items) |-> M("", items[i])]]

Obj(members) == [t |-> "object", n |-> 0, s |-> "", kids |-> members]

\* values JSON.stringify refuses: a BigInt, and an object that contains itself
BigInt(n) == [t |-> "bigint", n |-> n, s |-> "", kids |-> <<>>]

Cyclic == [t |-> "cyclic", n |-> 0, s |-> "", kids |-> <<>>]

\* v is null or undefined: reading a property of it throws a TypeError
IsNullish(v) == v.t \in {"undefined", "null"}

\* the value of v.key for a non-nullish v (undefined when there is no such property)
Get(v, key) ==
  IF v.t = "object" /\ \E i \in 1..Len(v.kids) : v.kids[i].k = key
  THEN v.kids[CHOOSE i \in 1..Len(v.kids) : v.kids[i].k = key].v
  ELSE Undefined

\* JavaScript truthiness, as used by !x, x || y and if (x)
Truthy(v) ==
  CASE v.t \in {"undefined", "null"} -> FALSE
    [] v.t \in {"number", "bigint"} -> v.n # 0
    [] v.t = "string" -> v.s # ""
    [] OTHER -> TRUE

\* String(v) and template-literal interpolation of a primitive
JSString(v) ==
  CASE v.t = "undefined" -> "undefined"
    [] v.t = "null" -> "null"
    [] v.t \in {"number", "bigint"} -> ToString(v.n)
    [] v.t = "string" -> v.s
    [] OTHER -> "[object Object]"

\* the characters of a string as they appear inside a JSON string literal
\* (the string is split in halves to keep the recursion shallow)
RECURSIVE Quote(_)
Quote(s) ==
  IF Len(s) = 0 THEN ""
  ELSE IF Len(s) = 1
  THEN (IF s = "\"" THEN "\\\"" ELSE IF s = "\\" THEN "\\\\" ELSE s)
  ELSE Quote(SubSeq(s, 1, Len(s) \div 2)) \o Quote(SubSeq(s, Len(s) \div 2 + 1, Len(s)))

\* JSON.stringify throws a TypeError on v
RECURSIVE CanStringify(_)
CanStringify(v) ==
  /\ v.t \notin {"bigint", "cyclic"}
  /\ \A i \in 1..Len(v.kids) : CanStringify(v.kids[i].v)

\* JSON.stringify(v) for a v that can be serialized and is not undefined
RECURSIVE JSONstringify(_), JoinMembers(_, _)
JoinMembers(kids, isObject) ==
  IF kids = <<>> THEN ""
  ELSE LET h == Head(kids)
           rest == JoinMembers(Tail(kids), isObject)
           one == (IF isObject THEN "\"" \o Quote(h.k) \o "\":" ELSE "")
                    \o (IF h.v.t = "undefined" THEN "null" ELSE JSONstringify(h.v))
       IN  IF rest = "" THEN one ELSE one \o "," \o rest
JSONstringify(v) ==
  CASE v.t = "null" -> "null"
    [] v.t = "number" -> ToString(v.n)
    [] v.t = "string" -> "\"" \o Quote(v.s) \o "\""
    [] v.t = "array" -> "[" \o JoinMembers(v.kids, FALSE) \o "]"
    [] v.t = "object" ->
         "{" \o JoinMembers(SelectSeq(v.kids, LAMBDA m : m.v.t # "undefined"), TRUE) \o "}"

\* ------------------------------------------------------------------------
\* Thrown values
\* ------------------------------------------------------------------------

\* an exception: cls is the class of an Error instance, or "NonError" for a
\* thrown value that is not an Error (message then holds String(value))
Err(cls, message) == [cls |-> cls, message |-> message]

NoErr == Err("", "")

\* error instanceof TypeError || error instanceof Error
IsErrorInstance(e) == e.cls \in {"Error", "TypeError", "SyntaxError"}

\* ------------------------------------------------------------------------
\* executeGraphQLQuery
\* ------------------------------------------------------------------------

GRAPHQL_ROOT == "http://api.catalysis-hub.org/graphql"

\* RequestData with the guard on variables lost: variables is always sent
RequestDataAlwaysVariables(query, variables) ==
  Obj(<<M("query", query),
        M("variables", IF variables.t = "undefined" THEN Null ELSE variables)>>)

\* the request data: {query} plus variables when variables is truthy
RequestData(query, variables) ==
  IF Truthy(variables)
  THEN Obj(<<M("query", query), M("variables", variables)>>)
  ELSE Obj(<<M("query", query)>>)

\* ResponseOk with the status check lost
ResponseOkAlways(status) == TRUE

\* response.ok
ResponseOk(status) == status \in 200..299

\* the Error thrown on a non-ok upstream status
HttpError(status) == Err("Error", "HTTP error! status: " \o ToString(status))

\* how a promise of the forwarder settles
Resolved(value) == [state |-> "resolved", value |-> value, error |-> NoErr]

Rejected(error) == [state |-> "rejected", value |-> Undefined, error |-> error]

Pending == [state |-> "pending", value |-> Undefined, error |-> NoErr]

ErrorsValue(message) == Obj(<<M("errors", Arr(<<Obj(<<M("message", Str(message))>>)>>))>>)

\* CatchBlock rethrowing what is not an Error instead of wrapping it
CatchBlockRethrowsNonError(error) ==
  IF IsErrorInstance(error)
  THEN Resolved(ErrorsValue("HTTP Request Error connecting to Catalysis Hub: " \o error.message))
  ELSE Rejected(error)

\* the catch block of executeGraphQLQuery
CatchBlock(error) ==
  IF IsErrorInstance(error)
  THEN Resolved(ErrorsValue("HTTP Request Error connecting to Catalysis Hub: " \o error.message))
  ELSE Resolved(ErrorsValue("An unexpected error occurred: " \o error.message))

\* ------------------------------------------------------------------------
\* fetch handler: responses
\* ------------------------------------------------------------------------

\* new Response(body, {status, headers}); hasBody is FALSE for a null body
Response(hasBody, body, status, ctype) ==
  [state |-> "resolved", status |-> status, ctype |-> ctype,
   hasBody |-> hasBody, body |-> body]

NoResponse == [state |-> "pending", status |-> 0, ctype |-> "", hasBody |-> FALSE, body |-> ""]

JsonResponse(envelope, status) ==
  Response(TRUE, JSONstringify(envelope), status, "application/json")

\* OPTIONS, and every notification
Ack == Response(FALSE, "", 204, "application/json")

ReadyResponse == Response(TRUE, "Catalysis Hub MCP Server - Ready", 200, "text/plain")

DefaultProtocolVersion == Str("2024-11-05")

ToolName == Str("catalysishub_graphql")

\* InitializeResponse answering its own version whatever the client asked for
InitializeResponseFixedVersion(requestBody) ==
  JsonResponse(Obj(<<
    M("jsonrpc", Str("2.0")),
    M("id", Get(requestBody, "id")),
    M("result", Obj(<<
       M("protocolVersion", DefaultProtocolVersion),
       M("capabilities", Obj(<<M("tools", Obj(<<>>))>>)),
       M("serverInfo", Obj(<<M("name", Str("CatalysisHub")), M("version", Str("0.1.0"))>>))>>))>>),
    200)

InitializeResponse(requestBody) ==
  LET params == Get(requestBody, "params")
      requested == IF IsNullish(params) THEN Undefined ELSE Get(params, "protocolVersion")
      clientProtocolVersion == IF Truthy(requested) THEN requested ELSE DefaultProtocolVersion
  IN  JsonResponse(Obj(<<
        M("jsonrpc", Str("2.0")),
        M("id", Get(requestBody, "id")),
        M("result", Obj(<<
           M("protocolVersion", clientProtocolVersion),
           M("capabilities", Obj(<<M("tools", Obj(<<>>))>>)),
           M("serverInfo", Obj(<<M("name", Str("CatalysisHub")), M("version", Str("0.1.0"))>>))>>))>>),
        200)

ToolsList ==
  Arr(<<Obj(<<
    M("name", ToolName),
    M("description", Str("Execute GraphQL queries against the Catalysis Hub API")),
    M("inputSchema", Obj(<<
       M("type", Str("object")),
       M("properties", Obj(<<
          M("query", Obj(<<M("type", Str("string"))>>)),
          M("variables", Obj(<<M("type", Str("object"))>>))>>)),
       M("required", Arr(<<Str("query")>>))>>))>>)>>)

ToolsListResponse(requestBody) ==
  JsonResponse(Obj(<<
    M("jsonrpc", Str("2.0")),
    M("id", Get(requestBody, "id")),
    M("result", Obj(<<M("tools", ToolsList)>>))>>), 200)

ToolResultResponse(requestBody, result) ==
  JsonResponse(Obj(<<
    M("jsonrpc", Str("2.0")),
    M("id", Get(requestBody, "id")),
    M("result", Obj(<<
       M("content", Arr(<<Obj(<<
          M("type", Str("text")),
          M("text", Str(JSONstringify(result)))>>)>>))>>))>>), 200)

ErrorEnvelope(id, code, message) ==
  Obj(<<M("jsonrpc", Str("2.0")),
        M("id", id),
        M("error", Obj(<<M("code", Num(code)), M("message", Str(message))>>))>>)

ToolErrorResponse(requestBody, toolError) ==
  JsonResponse(ErrorEnvelope(Get(requestBody, "id"), -32603,
                             "Tool execution failed: " \o toolError.message), 500)

ToolNotFoundResponse(requestBody, name) ==
  JsonResponse(ErrorEnvelope(Get(requestBody, "id"), -32601,
                             "Tool not found: " \o JSString(name)), 404)

MethodNotFoundResponse(requestBody) ==
  JsonResponse(ErrorEnvelope(Get(requestBody, "id"), -32601,
                             "Method not found: " \o JSString(Get(requestBody, "method"))), 404)

\* OuterCatch reporting the failure as a method-not-found 404
OuterCatchNotFound(error) ==
  JsonResponse(Obj(<<
    M("jsonrpc", Str("2.0")),
    M("error", Obj(<<M("code", Num(-32601)), M("message", Str("Internal server error"))>>)),
    M("id", Null)>>), 404)

\* the outer catch of the handler
OuterCatch(error) ==
  JsonResponse(Obj(<<
    M("jsonrpc", Str("2.0")),
    M("error", Obj(<<M("code", Num(-32603)), M("message", Str("Internal server error"))>>)),
    M("id", Null)>>), 500)

\* ------------------------------------------------------------------------
\* fetch handler: routing of a parsed request body
\* ------------------------------------------------------------------------

\* what the synchronous part of the handler does with a body: return a
\* response, throw to the outer catch, or call executeGraphQLQuery
Return(response) ==
  [kind |-> "return", response |-> response, error |-> NoErr,
   query |-> Undefined, variables |-> Undefined]

Throw(error) ==
  [kind |-> "throw", response |-> NoResponse, error |-> error,
   query |-> Undefined, variables |-> Undefined]

Forward(query, variables) ==
  [kind |-> "forward", response |-> NoResponse, error |-> NoErr,
   query |-> query, variables |-> variables]

\* requestBody.method && !requestBody.id
IsNotification(requestBody) ==
  Truthy(Get(requestBody, "method")) /\ ~Truthy(Get(requestBody, "id"))

\* args.query?.slice(0, 100) throws: query is neither nullish nor a value with a slice method
SliceThrows(query) == ~IsNullish(query) /\ query.t \notin {"string", "array"}

\* the inner try block of tools/call for the known tool, up to the call of the forwarder
CallTool(requestBody, args) ==
  IF IsNullish(args)
  THEN Return(ToolErrorResponse(requestBody,
         Err("TypeError", "Cannot read properties of " \o JSString(args) \o " (reading 'query')")))
  ELSE IF SliceThrows(Get(args, "query"))
  THEN Return(ToolErrorResponse(requestBody,
         Err("TypeError", "args.query?.slice is not a function")))
  ELSE Forward(Get(args, "query"), Get(args, "variables"))

ToolsCall(requestBody) ==
  LET params == Get(requestBody, "params") IN
  IF IsNullish(params)
  THEN Throw(Err("TypeError", "Cannot destructure property 'name' of 'requestBody.params'"))
  ELSE IF Get(params, "name") = ToolName
  THEN CallTool(requestBody, Get(params, "arguments"))
  ELSE Return(ToolNotFoundResponse(requestBody, Get(params, "name")))

Route(requestBody) ==
  IF IsNullish(requestBody)
  THEN Throw(Err("TypeError", "Cannot read properties of null (reading 'method')"))
  ELSE IF Get(requestBody, "method") = Str("initialize")
  THEN Return(InitializeResponse(requestBody))
  ELSE IF IsNotification(requestBody)
  THEN Return(Ack)
  ELSE IF Get(requestBody, "method") = Str("tools/list")
  THEN Return(ToolsListResponse(requestBody))
  ELSE IF Get(requestBody, "method") = Str("tools/call")
  THEN ToolsCall(requestBody)
  ELSE Return(MethodNotFoundResponse(requestBody))

\* ------------------------------------------------------------------------
\* Inputs
\* ------------------------------------------------------------------------

\* an object literal whose absent members are left out
MkObj(members) == Obj(SelectSeq(members, LAMBDA m : m.v.t # "undefined"))

Ids == {Undefined, Null, Str(""), Str("a")} \cup {Num(i) : i \in 0..MaxId}

Methods == {Undefined, Str(""), Str("initialize"), Str("notifications/initialized"),
            Str("tools/list"), Str("tools/call"), Str("resources/list")}

Names == {Undefined, ToolName, Str("other_tool")}

IntrospectionQuery == Str("query{__schema{queryType{name}}}")

Queries == {Undefined, IntrospectionQuery, Num(7)}

VariablesValues == {Undefined, Null, Obj(<<>>), Obj(<<M("first", Num(10))>>)}

ArgumentsValues ==
  {Undefined, Null} \cup
  {MkObj(<<M("query", q), M("variables", v)>>) : q \in Queries, v \in VariablesValues}

ProtocolVersions == {Undefined, Null, Num(0), Str(""), Str("2024-11-05"), Str("2025-03-26")}

ParamsValues ==
  {Undefined, Null} \cup
  {MkObj(<<M("name", nm), M("arguments", a), M("protocolVersion", pv)>>) :
     nm \in Names, a \in ArgumentsValues, pv \in ProtocolVersions}

\* JSON objects with any of method, params and id present
EnvelopeBodies ==
  {MkObj(<<M("jsonrpc", Str("2.0")), M("method", m), M("params", ps), M("id", id)>>) :
     m \in Methods, ps \in ParamsValues, id \in Ids}

\* JSON texts that parse to something other than an object with a method
OtherBodies == {Null, Num(5), Str("ping"), Arr(<<>>), Obj(<<>>)}

\* a request as it arrives: HTTP method and body text (parseable as JSON to body, or not)
Inbound(http, parseable, body) ==
  [entry |-> "fetch", http |-> http, parseable |-> parseable, body |-> body]

NoRequest == [entry |-> "none", http |-> "", parseable |-> FALSE, body |-> Undefined]

DirectRequest == [entry |-> "direct", http |-> "", parseable |-> FALSE, body |-> Undefined]

PostRequests ==
  {Inbound("POST", TRUE, b) : b \in EnvelopeBodies \cup OtherBodies}
    \cup {Inbound("POST", FALSE, Undefined)}

\* the few bodies used when several requests are in flight
ConcRequests ==
  { Inbound("POST", FALSE, Undefined),
    Inbound("POST", TRUE, MkObj(<<M("jsonrpc", Str("2.0")), M("method", Str("initialize")),
                                  M("id", Num(1))>>)),
    Inbound("POST", TRUE, MkObj(<<M("jsonrpc", Str("2.0")),
                                  M("method", Str("notifications/initialized"))>>)),
    Inbound("POST", TRUE, MkObj(<<M("jsonrpc", Str("2.0")), M("method", Str("tools/call")),
                                  M("params", Obj(<<M("name", ToolName),
                                     M("arguments", Obj(<<M("query", IntrospectionQuery)>>))>>)),
                                  M("id", Num(1))>>)) }

OtherHttpMethods == {"GET", "PUT"}

\* arguments of a direct call of executeGraphQLQuery
DirectQueries == {IntrospectionQuery, Str(""), Undefined, BigInt(1)}

DirectVariables == VariablesValues \cup {Cyclic, BigInt(0), Obj(<<M("n", BigInt(2))>>)}

\* what the upstream can do
UpstreamStatuses == {200, 400, 500}

FetchRejections == {Err("TypeError", "fetch failed"), Err("NonError", "connection reset")}

SchemaBody ==
  Obj(<<M("data", Obj(<<M("__schema", Obj(<<M("queryType",
        Obj(<<M("name", Str("Query"))>>))>>))>>))>>)

GraphQLErrorBody ==
  Obj(<<M("errors", Arr(<<Obj(<<M("message", Str("Cannot query field \"x\""))>>)>>))>>)

UpstreamBodies == {SchemaBody, GraphQLErrorBody, Null}

BodyParseError == Err("SyntaxError", "Unexpected token < in JSON at position 0")

\* ------------------------------------------------------------------------
\* State
\* ------------------------------------------------------------------------

VARIABLES
  server,         \* the module-level McpServer: 0 is null, k > 0 the k-th instance built
  constructions,  \* how many times new McpServer(...) has run
  builtBy,        \* the HTTP methods of the requests that ran new McpServer(...)
  pc,             \* per request slot: idle, readBody, awaitFetch, awaitJson, done
  req,            \* the request handled in the slot
  sawServer,      \* the value of server when the request called getServer()
  frame,          \* the arguments of the running executeGraphQLQuery call
  outbound,       \* the upstream POSTs issued for the request, in order
  up,             \* what the upstream did for the request
  fwd,            \* how the promise of executeGraphQLQuery settled
  resp            \* how the promise of the fetch handler settled

vars == <<server, constructions, builtBy, pc, req, sawServer, frame, outbound, up, fwd, resp>>

NullServer == 0

NoFrame == [query |-> Undefined, variables |-> Undefined]

NoUpstream == [fetch |-> "none", error |-> NoErr, status |-> 0, json |-> "none", body |-> Undefined]

InitFor(n) ==
  /\ server = NullServer
  /\ constructions = 0
  /\ builtBy = {}
  /\ pc = [p \in 1..n |-> "idle"]
  /\ req = [p \in 1..n |-> NoRequest]
  /\ sawServer = [p \in 1..n |-> NullServer]
  /\ frame = [p \in 1..n |-> NoFrame]
  /\ outbound = [p \in 1..n |-> <<>>]
  /\ up = [p \in 1..n |-> NoUpstream]
  /\ fwd = [p \in 1..n |-> Pending]
  /\ resp = [p \in 1..n |-> NoResponse]

Slots == DOMAIN pc

\* getServer() without its null check: every call builds a new server
GetServerRebuilds(current, built) == built + 1

\* getServer(): the value of `server` after the call
getServer(current, built) == IF current = NullServer THEN built + 1 ELSE current

\* ------------------------------------------------------------------------
\* Steps
\* ------------------------------------------------------------------------

\* the handler returns `response` for the request in slot p
Respond(p, response) ==
  /\ resp' = [resp EXCEPT ![p] = response]
  /\ pc' = [pc EXCEPT ![p] = "done"]

\* the promise of executeGraphQLQuery settles and its caller resumes: the
\* handler wraps a value as a result envelope, a rejection (inner catch) as
\* an error envelope; a direct caller just receives it
ForwarderSettles(p, settled) ==
  /\ fwd' = [fwd EXCEPT ![p] = settled]
  /\ IF req[p].entry = "fetch"
     THEN Respond(p, IF settled.state = "resolved"
                     THEN ToolResultResponse(req[p].body, settled.value)
                     ELSE ToolErrorResponse(req[p].body, settled.error))
     ELSE /\ pc' = [pc EXCEPT ![p] = "done"]
          /\ UNCHANGED resp

\* executeGraphQLQuery(query, variables) up to its first await: build the
\* data, serialize it and issue the POST (a failing JSON.stringify goes to
\* the catch block)
executeGraphQLQuery(p, query, variables) ==
  /\ frame' = [frame EXCEPT ![p] = [query |-> query, variables |-> variables]]
  /\ IF CanStringify(RequestData(query, variables))
     THEN /\ outbound' = [outbound EXCEPT ![p] =
                 Append(@, [url |-> GRAPHQL_ROOT, method |-> "POST",
                            body |-> JSONstringify(RequestData(query, variables))])]
          /\ pc' = [pc EXCEPT ![p] = "awaitFetch"]
          /\ UNCHANGED <<fwd, resp>>
     ELSE /\ ForwarderSettles(p, CatchBlock(Err("TypeError", "Converting circular structure or BigInt to JSON")))
          /\ UNCHANGED outbound

\* fetch handler, request.method === 'OPTIONS'
FetchOptions(p) ==
  /\ pc[p] = "idle"
  /\ req' = [req EXCEPT ![p] = Inbound("OPTIONS", FALSE, Undefined)]
  /\ Respond(p, Ack)
  /\ UNCHANGED <<server, constructions, builtBy, sawServer, frame, outbound, up, fwd>>

\* fetch handler, any other method than POST
FetchNonPost(p) ==
  /\ pc[p] = "idle"
  /\ \E m \in OtherHttpMethods : req' = [req EXCEPT ![p] = Inbound(m, FALSE, Undefined)]
  /\ Respond(p, ReadyResponse)
  /\ UNCHANGED <<server, constructions, builtBy, sawServer, frame, outbound, up, fwd>>

\* fetch handler, POST: getServer() and the start of request.json()
FetchPost(p, requests) ==
  /\ pc[p] = "idle"
  /\ \E r \in requests : req' = [req EXCEPT ![p] = r]
  /\ sawServer' = [sawServer EXCEPT ![p] = server]
  /\ server' = getServer(server, constructions)
  /\ constructions' = IF server' # server THEN constructions + 1 ELSE constructions
  /\ builtBy' = IF server' # server THEN builtBy \cup {req'[p].http} ELSE builtBy
  /\ pc' = [pc EXCEPT ![p] = "readBody"]
  /\ UNCHANGED <<frame, outbound, up, fwd, resp>>

\* request.json() settles and the handler runs to its return or to the
\* await of the upstream fetch
RequestJsonSettles(p) ==
  /\ pc[p] = "readBody"
  /\ LET routed == IF req[p].parseable
                   THEN Route(req[p].body)
                   ELSE Throw(Err("SyntaxError", "Unexpected end of JSON input"))
     IN  CASE routed.kind = "return" ->
                /\ Respond(p, routed.response)
                /\ UNCHANGED <<frame, outbound, fwd>>
           [] routed.kind = "throw" ->
                /\ Respond(p, OuterCatch(routed.error))
                /\ UNCHANGED <<frame, outbound, fwd>>
           [] routed.kind = "forward" ->
                executeGraphQLQuery(p, routed.query, routed.variables)
  /\ UNCHANGED <<server, constructions, builtBy, req, sawServer, up>>

\* the upstream fetch settles: it rejects, or answers with a status; a
\* non-ok status throws, an ok status goes on to response.json()
UpstreamFetchSettles(p) ==
  /\ pc[p] = "awaitFetch"
  /\ \/ \E e \in FetchRejections :
          /\ up' = [up EXCEPT ![p].fetch = "rejected", ![p].error = e]
          /\ ForwarderSettles(p, CatchBlock(e))
     \/ \E st \in UpstreamStatuses :
          /\ up' = [up EXCEPT ![p].fetch = "responded", ![p].status = st]
          /\ IF ResponseOk(st)
             THEN /\ pc' = [pc EXCEPT ![p] = "awaitJson"]
                  /\ UNCHANGED <<fwd, resp>>
             ELSE ForwarderSettles(p, CatchBlock(HttpError(st)))
  /\ UNCHANGED <<server, constructions, builtBy, req, sawServer, frame, outbound>>

\* response.json() settles: the body parses to a JSON value, or it does not
UpstreamJsonSettles(p) ==
  /\ pc[p] = "awaitJson"
  /\ \/ \E b \in UpstreamBodies :
          /\ up' = [up EXCEPT ![p].json = "parsed", ![p].body = b]
          /\ ForwarderSettles(p, Resolved(b))
     \/ /\ up' = [up EXCEPT ![p].json = "failed", ![p].error = BodyParseError]
        /\ ForwarderSettles(p, CatchBlock(BodyParseError))
  /\ UNCHANGED <<server, constructions, builtBy, req, sawServer, frame, outbound>>

\* the response has been handed to the runtime; the slot takes the next request
Deliver(p) ==
  /\ pc[p] = "done"
  /\ pc' = [pc EXCEPT ![p] = "idle"]
  /\ req' = [req EXCEPT ![p] = NoRequest]
  /\ sawServer' = [sawServer EXCEPT ![p] = NullServer]
  /\ frame' = [frame EXCEPT ![p] = NoFrame]
  /\ outbound' = [outbound EXCEPT ![p] = <<>>]
  /\ up' = [up EXCEPT ![p] = NoUpstream]
  /\ fwd' = [fwd EXCEPT ![p] = Pending]
  /\ resp' = [resp EXCEPT ![p] = NoResponse]
  /\ UNCHANGED <<server, constructions, builtBy>>

\* executeGraphQLQuery called on its own, with any arguments
DirectCall(p) ==
  /\ pc[p] = "idle"
  /\ req' = [req EXCEPT ![p] = DirectRequest]
  /\ \E q \in DirectQueries, v \in DirectVariables : executeGraphQLQuery(p, q, v)
  /\ UNCHANGED <<server, constructions, builtBy, sawServer, up>>

\* ------------------------------------------------------------------------
\* Specifications
\* ------------------------------------------------------------------------

\* one request at a time, every request body
Init == InitFor(1)

Next ==
  \/ FetchOptions(1)
  \/ FetchNonPost(1)
  \/ FetchPost(1, PostRequests)
  \/ RequestJsonSettles(1)
  \/ UpstreamFetchSettles(1)
  \/ UpstreamJsonSettles(1)
  \/ Deliver(1)

Spec == Init /\ [][Next]_vars

\* NumClients requests in flight, interleaved at their await points
ConcInit == InitFor(NumClients)

ConcNext ==
  \E p \in 1..NumClients :
    \/ FetchOptions(p)
    \/ FetchNonPost(p)
    \/ FetchPost(p, ConcRequests)
    \/ RequestJsonSettles(p)
    \/ UpstreamFetchSettles(p)
    \/ UpstreamJsonSettles(p)
    \/ Deliver(p)

ConcSpec == ConcInit /\ [][ConcNext]_vars

\* executeGraphQLQuery alone
FwdInit == InitFor(1)

FwdNext ==
  \/ DirectCall(1)
  \/ UpstreamFetchSettles(1)
  \/ UpstreamJsonSettles(1)
  \/ Deliver(1)

FwdSpec == FwdInit /\ [][FwdNext]_vars

\* ------------------------------------------------------------------------
\* Reading the texts back
\* ------------------------------------------------------------------------

\* sub occurs in s
Contains(s, sub) ==
  \E i \in 1..(Len(s) - Len(sub) + 1) : SubSeq(s, i, i + Len(sub) - 1) = sub

HasKey(v, key) == v.t = "object" /\ \E i \in 1..Len(v.kids) : v.kids[i].k = key

\* the JSON documents that the bounded inputs can put on the wire: forwarder
\* results, outbound request data, and JSON-RPC envelopes
DocDetails ==
  {e.message : e \in FetchRejections} \cup {BodyParseError.message}
    \cup {"HTTP error! status: " \o ToString(st) : st \in UpstreamStatuses}

DocForwardMessages ==
  {pre \o d : pre \in {"HTTP Request Error connecting to Catalysis Hub: ",
                       "An unexpected error occurred: "},
              d \in DocDetails}

ForwardDocs ==
  UpstreamBodies \cup
  {Obj(<<M("errors", Arr(<<Obj(<<M("message", Str(m))>>)>>))>>) : m \in DocForwardMessages}

OutboundDocs ==
  {MkObj(<<M("query", q), M("variables", v)>>) : q \in Queries, v \in VariablesValues}

DocErrorMessages ==
  {"Internal server error"}
    \cup {"Method not found: " \o JSString(m) : m \in Methods}
    \cup {"Tool not found: " \o JSString(nm) : nm \in Names}
    \cup {"Tool execution failed: " \o d :
            d \in {"Cannot read properties of undefined (reading 'query')",
                   "Cannot read properties of null (reading 'query')",
                   "args.query?.slice is not a function"}}

DocResults ==
  {Obj(<<M("protocolVersion", pv),
         M("capabilities", Obj(<<M("tools", Obj(<<>>))>>)),
         M("serverInfo", Obj(<<M("name", Str("CatalysisHub")), M("version", Str("0.1.0"))>>))>>) :
     pv \in ProtocolVersions \ {Undefined}}
    \cup {Obj(<<M("tools", ToolsList)>>)}
    \cup {Obj(<<M("content", Arr(<<Obj(<<M("type", Str("text")),
                                         M("text", Str(JSONstringify(d)))>>)>>))>>) :
            d \in ForwardDocs}

DocErrors ==
  {Obj(<<M("code", Num(c)), M("message", Str(m))>>) : c \in {-32601, -32603}, m \in DocErrorMessages}

EnvelopeDocs ==
  {MkObj(<<M("jsonrpc", Str("2.0")), M("id", id), M("result", r)>>) : id \in Ids, r \in DocResults}
    \cup {MkObj(<<M("jsonrpc", Str("2.0")), M("id", id), M("error", e)>>) : id \in Ids, e \in DocErrors}
    \cup {MkObj(<<M("jsonrpc", Str("2.0")), M("error", e), M("id", id)>>) : id \in Ids, e \in DocErrors}

Docs == ForwardDocs \cup OutboundDocs \cup EnvelopeDocs

\* every document with its text
DocTexts == {<<JSONstringify(d), d>> : d \in Docs}

\* JSON.parse(text), for the text of one of Docs; Undefined stands for any other text
JSONparse(text) ==
  IF \E pair \in DocTexts : pair[1] = text
  THEN (CHOOSE pair \in DocTexts : pair[1] = text)[2]
  ELSE Undefined

\* ------------------------------------------------------------------------
\* Vocabulary of the properties
\* ------------------------------------------------------------------------

\* slot p holds a POST whose handler has returned
Handled(p) == pc[p] = "done" /\ req[p].entry = "fetch" /\ req[p].http = "POST"

\* the body of the request in slot p is JSON text for an object
IsObjectBody(p) == req[p].parseable /\ req[p].body.t = "object"

MethodOf(p) == Get(req[p].body, "method")

IdOf(p) == Get(req[p].body, "id")

\* the request carries an id member (whatever its value, null included)
CarriesId(p) == HasKey(req[p].body, "id")

KnownMethods == {Str("initialize"), Str("notifications/initialized"),
                 Str("tools/list"), Str("tools/call")}

\* the JSON document in the body of the reply (Undefined when there is none)
Reply(p) ==
  IF resp[p].state = "resolved" /\ resp[p].hasBody /\ resp[p].ctype = "application/json"
  THEN JSONparse(resp[p].body)
  ELSE Undefined

IsResultReply(p) ==
  /\ HasKey(Reply(p), "result") /\ ~HasKey(Reply(p), "error")
  /\ Get(Reply(p), "jsonrpc") = Str("2.0")

IsErrorReply(p, code) ==
  /\ HasKey(Reply(p), "error") /\ ~HasKey(Reply(p), "result")
  /\ Get(Reply(p), "jsonrpc") = Str("2.0")
  /\ Get(Get(Reply(p), "error"), "code") = Num(code)

\* HTTP 204 with no body
IsEmptyAck(p) ==
  resp[p].state = "resolved" /\ resp[p].status = 204 /\ ~resp[p].hasBody

\* the reply's id member equals the request's (absent when the request has none)
EchoesId(p) ==
  /\ HasKey(Reply(p), "id") = CarriesId(p)
  /\ Get(Reply(p), "id") = IdOf(p)

ParamsOf(p) == Get(req[p].body, "params")

\* a tools/call request that names the one tool
NamesTheTool(p) ==
  /\ IsObjectBody(p) /\ MethodOf(p) = Str("tools/call")
  /\ Get(ParamsOf(p), "name") = ToolName

\* content[0].text of a result reply, as a string ("" when there is none)
ReplyText(p) ==
  LET content == Get(Get(Reply(p), "result"), "content")
  IN  IF content.t = "array" /\ Len(content.kids) = 1
      THEN Get(content.kids[1].v, "text").s
      ELSE ""

\* the upstream call of slot p failed: network error, non-success status, unparseable body
UpstreamFailed(p) ==
  \/ up[p].fetch = "rejected" /\ up[p].error.cls = "TypeError"
  \/ up[p].fetch = "responded" /\ up[p].status \notin 200..299
  \/ up[p].json = "failed"

\* v is {errors: [{message: <string>}]}
IsErrorsShape(v) ==
  /\ v.t = "object" /\ Len(v.kids) = 1 /\ v.kids[1].k = "errors"
  /\ v.kids[1].v.t = "array" /\ Len(v.kids[1].v.kids) = 1
  /\ LET e == v.kids[1].v.kids[1].v
     IN  e.t = "object" /\ Len(e.kids) = 1 /\ e.kids[1].k = "message" /\ e.kids[1].v.t = "string"

\* ------------------------------------------------------------------------
\* Properties
\* ------------------------------------------------------------------------

\* C1: a POST envelope whose method (a non-empty name) is not one of the
\* four known methods is answered with a JSON-RPC error of code -32601 when
\* it carries an id (whatever the id's value: 0, "" and null included) and
\* with an empty HTTP 204 when it carries none.
C1_UnknownMethod ==
  \A p \in Slots :
    (Handled(p) /\ IsObjectBody(p) /\ MethodOf(p).t = "string" /\ MethodOf(p).s # ""
       /\ MethodOf(p) \notin KnownMethods)
      => IF CarriesId(p) THEN IsErrorReply(p, -32601) ELSE IsEmptyAck(p)

\* C2: a tools/call that carries an id (whatever its value) and whose
\* params.name is not the one tool (a missing name and missing params
\* included) is answered with HTTP 404 and a JSON-RPC error of code -32601,
\* and the forwarder is not invoked.
C2_UnknownTool ==
  \A p \in Slots :
    (Handled(p) /\ IsObjectBody(p) /\ MethodOf(p) = Str("tools/call") /\ CarriesId(p)
       /\ Get(ParamsOf(p), "name") # ToolName)
      => /\ resp[p].status = 404
         /\ IsErrorReply(p, -32601)
         /\ outbound[p] = <<>>
         /\ fwd[p] = Pending

\* C3: when the upstream call made for a tools/call request fails (the fetch
\* rejects with a network error, the upstream answers a non-success status,
\* or its body is not JSON), the reply is an HTTP 200 result envelope, not
\* an error envelope, whose content[0].text decodes to {errors:[{message}]}
\* with a message containing "HTTP Request Error"; the upstream status is
\* not the status of the reply.
C3_UpstreamFailureIsData ==
  \A p \in Slots :
    (Handled(p) /\ UpstreamFailed(p))
      => /\ NamesTheTool(p) /\ CarriesId(p)
         /\ resp[p].status = 200
         /\ IsResultReply(p)
         /\ EchoesId(p)
         /\ IsErrorsShape(JSONparse(ReplyText(p)))
         /\ Contains(JSONparse(ReplyText(p)).kids[1].v.kids[1].v.kids[1].v.s, "HTTP Request Error")

C3_Witness ==
  \E p \in Slots :
    /\ Handled(p) /\ up[p].fetch = "responded" /\ up[p].status = 500
    /\ resp[p].status = 200 /\ IsResultReply(p)
    /\ Contains(resp[p].body, "HTTP Request Error connecting to Catalysis Hub: HTTP error! status: 500")

\* C4: executeGraphQLQuery never rejects: whatever its arguments and whatever
\* the outbound call does, its promise resolves, and after any failure
\* (request data that cannot be serialized, a rejected fetch, a thrown value
\* that is no Error, a non-ok status, an unparseable body) the value is
\* {errors:[{message: <string>}]}.
ForwarderFailed(p) ==
  \/ ~CanStringify(RequestData(frame[p].query, frame[p].variables))
  \/ up[p].fetch = "rejected"
  \/ up[p].fetch = "responded" /\ up[p].status \notin 200..299
  \/ up[p].json = "failed"

C4_ForwarderNeverThrows ==
  \A p \in Slots :
    /\ fwd[p].state # "rejected"
    /\ (pc[p] = "done" /\ req[p].entry = "direct")
         => /\ fwd[p].state = "resolved"
            /\ ForwarderFailed(p) => IsErrorsShape(fwd[p].value)

C4_Witness ==
  \E p \in Slots :
    /\ pc[p] = "done" /\ req[p].entry = "direct"
    /\ up[p].fetch = "rejected" /\ up[p].error.cls = "NonError"
    /\ fwd[p].state = "resolved" /\ IsErrorsShape(fwd[p].value)

\* C5: when the upstream answers a tools/call request (id i, string query)
\* with a success status and a JSON body B, the reply is exactly
\* {jsonrpc:"2.0", id:i, result:{content:[{type:"text", text:T}]}} with
\* HTTP 200, where T parses to B; exactly one POST went out for the request,
\* carrying the caller's query, and 'variables' only if the caller supplied them.
UpstreamAnswered(p) == up[p].fetch = "responded" /\ up[p].json = "parsed"

ArgumentsOf(p) == Get(ParamsOf(p), "arguments")

C5_Relay ==
  \A p \in Slots :
    (Handled(p) /\ UpstreamAnswered(p))
      => /\ NamesTheTool(p) /\ CarriesId(p)
         /\ resp[p].status = 200
         /\ Reply(p) = Obj(<<M("jsonrpc", Str("2.0")), M("id", IdOf(p)),
                             M("result", Obj(<<M("content", Arr(<<Obj(<<
                                M("type", Str("text")),
                                M("text", Str(ReplyText(p)))>>)>>))>>))>>)
         /\ ReplyText(p) # ""
         /\ JSONparse(ReplyText(p)) = up[p].body
         /\ Len(outbound[p]) = 1
         /\ outbound[p][1].method = "POST" /\ outbound[p][1].url = GRAPHQL_ROOT
         /\ LET sent == JSONparse(outbound[p][1].body)
            IN  /\ sent.t = "object"
                /\ Get(sent, "query") = Get(ArgumentsOf(p), "query")
                /\ HasKey(sent, "variables") => /\ HasKey(ArgumentsOf(p), "variables")
                                                /\ Get(sent, "variables") = Get(ArgumentsOf(p), "variables")

C5_Witness ==
  \E p \in Slots :
    /\ Handled(p) /\ UpstreamAnswered(p) /\ up[p].body = SchemaBody
    /\ IdOf(p) = Num(1)
    /\ Get(ArgumentsOf(p), "query") = IntrospectionQuery
    /\ ~HasKey(ArgumentsOf(p), "variables")
    /\ resp[p].body = "{\"jsonrpc\":\"2.0\",\"id\":1,\"result\":{\"content\":[{\"type\":\"text\",\"text\":\"{\\\"data\\\":{\\\"__schema\\\":{\\\"queryType\\\":{\\\"name\\\":\\\"Query\\\"}}}}\"}]}}"
    /\ outbound[p] = <<[url |-> GRAPHQL_ROOT, method |-> "POST",
                        body |-> "{\"query\":\"query{__schema{queryType{name}}}\"}"]>>

\* the protocolVersion the caller supplied (Undefined when params or the member is missing)
SuppliedVersion(p) ==
  IF IsNullish(ParamsOf(p)) THEN Undefined ELSE Get(ParamsOf(p), "protocolVersion")

IsInitialize(p) == Handled(p) /\ IsObjectBody(p) /\ MethodOf(p) = Str("initialize")

\* the parts of an initialize result that do not depend on the request
FixedInitializeParts(p) ==
  LET result == Get(Reply(p), "result")
  IN  /\ resp[p].status = 200
      /\ IsResultReply(p)
      /\ EchoesId(p)
      /\ Len(result.kids) = 3
      /\ Get(result, "capabilities") = Obj(<<M("tools", Obj(<<>>))>>)
      /\ Get(result, "serverInfo") =
           Obj(<<M("name", Str("CatalysisHub")), M("version", Str("0.1.0"))>>)

\* C6 as stated: the result's protocolVersion is the supplied
\* params.protocolVersion verbatim, and the default "2024-11-05" when params
\* or params.protocolVersion is omitted; the rest of the result is fixed and
\* the id is echoed.
C6_VersionVerbatim ==
  \A p \in Slots :
    IsInitialize(p)
      => /\ FixedInitializeParts(p)
         /\ Get(Get(Reply(p), "result"), "protocolVersion") =
              (IF SuppliedVersion(p) = Undefined THEN DefaultProtocolVersion
               ELSE SuppliedVersion(p))

\* C6 amended: the result's protocolVersion is the supplied
\* params.protocolVersion verbatim when that value is truthy, and the
\* default "2024-11-05" when params or params.protocolVersion is omitted or
\* the value is falsy (the empty string, null, 0, false); the rest of the
\* result is fixed and the id is echoed.
C6_VersionOrDefault ==
  \A p \in Slots :
    IsInitialize(p)
      => /\ FixedInitializeParts(p)
         /\ Get(Get(Reply(p), "result"), "protocolVersion") =
              (IF SuppliedVersion(p) \in {Undefined, Null, Str(""), Num(0)}
               THEN DefaultProtocolVersion
               ELSE SuppliedVersion(p))

C6_Witness ==
  \E p \in Slots :
    /\ IsInitialize(p)
    /\ SuppliedVersion(p) = Str("")
    /\ IdOf(p) = Num(0)
    /\ resp[p].body = "{\"jsonrpc\":\"2.0\",\"id\":0,\"result\":{\"protocolVersion\":\"2024-11-05\",\"capabilities\":{\"tools\":{}},\"serverInfo\":{\"name\":\"CatalysisHub\",\"version\":\"0.1.0\"}}}"

\* C7: every POST gets exactly one Response and the handler never rejects;
\* the Response is a result envelope, an error envelope of code -32601 or
\* -32603, or an empty 204; the 204 is given only to envelopes without an
\* id, and an envelope with an id always gets a body.
C7_OneResponse ==
  \A p \in Slots :
    (req[p].entry = "fetch" /\ req[p].http = "POST")
      => /\ resp[p].state # "rejected"
         /\ Handled(p)
              => /\ resp[p].state = "resolved"
                 /\ \/ IsResultReply(p)
                    \/ IsErrorReply(p, -32601)
                    \/ IsErrorReply(p, -32603)
                    \/ IsEmptyAck(p)
                 /\ IsEmptyAck(p) => ~CarriesId(p)
                 /\ CarriesId(p) => resp[p].hasBody

\* the body is not a well-formed envelope: no JSON, or JSON that is not an
\* object with a method
NotWellFormed(p) == ~req[p].parseable \/ ~HasKey(req[p].body, "method")

\* C8 as stated: a POST whose body is not a well-formed envelope is answered
\* with HTTP 500 and an error envelope of code -32603 and id null, and no
\* upstream call is made.
C8_MalformedIs500 ==
  \A p \in Slots :
    (Handled(p) /\ NotWellFormed(p))
      => /\ resp[p].status = 500
         /\ IsErrorReply(p, -32603)
         /\ HasKey(Reply(p), "id") /\ Get(Reply(p), "id") = Null
         /\ outbound[p] = <<>>

\* C8 amended: a POST whose body is unparseable or is the JSON value null is
\* answered with HTTP 500 and an error envelope of code -32603 and id null;
\* a body that parses to any other JSON value without a method (a number, a
\* string, an array, an object without method) is answered with HTTP 404 and
\* an error envelope of code -32601 that echoes the body's id if it has one;
\* in neither case is an upstream call made.
C8_MalformedBody ==
  \A p \in Slots :
    (Handled(p) /\ NotWellFormed(p))
      => /\ outbound[p] = <<>>
         /\ fwd[p] = Pending
         /\ IF ~req[p].parseable \/ req[p].body = Null
            THEN /\ resp[p].status = 500
                 /\ IsErrorReply(p, -32603)
                 /\ HasKey(Reply(p), "id") /\ Get(Reply(p), "id") = Null
            ELSE /\ resp[p].status = 404
                 /\ IsErrorReply(p, -32601)
                 /\ EchoesId(p)

C8_Witness ==
  \E p \in Slots :
    /\ Handled(p) /\ ~req[p].parseable
    /\ resp[p].status = 500
    /\ resp[p].body = "{\"jsonrpc\":\"2.0\",\"error\":{\"code\":-32603,\"message\":\"Internal server error\"},\"id\":null}"

\* C9: a tools/call that names the one tool and carries an id is answered
\* either with a result envelope and HTTP 200 or, when handling throws, with
\* an error envelope of code -32603 and HTTP 500; either way the envelope's
\* id is the request's id.
C9_KnownToolReply ==
  \A p \in Slots :
    (Handled(p) /\ NamesTheTool(p) /\ CarriesId(p))
      => /\ \/ resp[p].status = 200 /\ IsResultReply(p)
            \/ resp[p].status = 500 /\ IsErrorReply(p, -32603)
         /\ EchoesId(p)

\* two finished requests with the same request and the same upstream
\* behaviour got the same response, whatever `server` was when each began
SameResponseForSameRequest ==
  \A p, q \in Slots :
    (pc[p] = "done" /\ pc[q] = "done" /\ req[p] = req[q] /\ up[p] = up[q])
      => resp[p] = resp[q]

\* C10: under any interleaving of concurrent requests the McpServer is
\* constructed at most once and only by a POST, is never reassigned once
\* non-null, and no response depends on whether it was already built.
C10_Singleton ==
  /\ [](constructions <= 1 /\ builtBy \subseteq {"POST"} /\ SameResponseForSameRequest)
  /\ [][/\ server # NullServer => server' = server
        /\ (server' # server) => \E p \in Slots : pc[p] = "idle" /\ req'[p].http = "POST"]_vars

C10_Witness ==
  \E p, q \in Slots :
    /\ Handled(p) /\ Handled(q)
    /\ req[p] = req[q] /\ up[p] = up[q] /\ up[p].json = "parsed"
    /\ sawServer[p] = NullServer /\ sawServer[q] # NullServer
    /\ resp[p] = resp[q]
    /\ constructions = 1

====
